---------------------------- MODULE Spec2Model ----------------------------
(***************************************************************************)
(* Model of the serial ingestion path of the sensor dashboard:             *)
(*   SensorManager.get_next_sample  (src/sensor_manager.py)                *)
(*   Dashboard.update               (src/dashboard.py)                     *)
(*                                                                         *)
(* Text is a sequence of one-character strings.  Bytes on the serial line  *)
(* are written the same way; the bytes that are not ASCII are "C3" and     *)
(* "A9" (the UTF-8 encoding of U+00E9, written "E9" once decoded) and the  *)
(* NUL byte is "NUL".  Python floats are modelled by exact rationals       *)
(* [n |-> numerator, d |-> denominator > 0] in lowest terms, so rounding   *)
(* is the one thing of the arithmetic that is left out.                    *)
(***************************************************************************)
EXTENDS Integers, Sequences, FiniteSets, TLC

VARIABLES
    simulation_mode,   \* SensorManager.simulation_mode
    sim_t,             \* SensorManager.sim_t, in steps of 0.02
    buffer,            \* SensorManager.buffer
    wire,              \* bytes the device has still to deliver on the port
    op,                \* which path the last get_next_sample call took
    ret,               \* its return value: None or a 9-element sample
    raised,            \* TRUE when it ended by an exception reaching the caller
    processed,         \* self.buffer right after line 70 of that call
    raw_data,          \* the bytes that call read (line 68)
    fed,               \* every byte read from the port since construction
    heard,             \* every character appended to the buffer since then
    best,              \* the last sample (not None) returned since construction
    cleared,           \* TRUE once line 113 has emptied the buffer
    now,               \* time.time(), in milliseconds since construction
    last_update_time,  \* Dashboard.last_update_time, same unit
    last_call_time,    \* the time of the previous Dashboard.update call
    last_sample_time,  \* the time of the previous call that had a sample
    current_yaw,       \* Dashboard.current_yaw, degrees
    vel,               \* Dashboard.vx, vy, vz
    pos,               \* Dashboard.px, py, pz
    step,              \* what the last Dashboard.update call did
    pc,                \* "loop" while a call is in the while loop of line 75
    loop_packet,       \* last_valid_packet of the call that is in the loop
    entry              \* the buffer on entry to each iteration of that call
                       \* that went on to another one, in order

vars == <<simulation_mode, sim_t, buffer, wire, op, ret, raised, processed,
          raw_data, fed, heard, best, cleared, now, last_update_time, last_call_time,
          last_sample_time, current_yaw, vel, pos, step, pc, loop_packet,
          entry>>

loopVars == <<pc, loop_packet, entry>>

sensorVars == <<simulation_mode, sim_t, buffer, wire, op, ret, raised,
                processed, raw_data, fed, heard, best, cleared>>

dashVars ==
    <<now, last_update_time, last_call_time, last_sample_time, current_yaw,
      vel, pos, step>>

-----------------------------------------------------------------------------
(* Bounds of the model *)

\* longest run of bytes one read takes, apart from "everything waiting"
MaxRead == 3
\* number of frames the device sends in one run
MaxFrames == 2
\* longest backlog of the line that is read a few bytes at a time
MaxBacklog == 100
\* number of simulated samples drawn in one run
MaxSimTicks == 3
\* seconds of wall-clock time one run of the dashboard lasts
MaxClock == 4

\* len(self.buffer) > 1000
BufferLimit == 1000

-----------------------------------------------------------------------------
(* Exact rational arithmetic, standing for Python's float arithmetic *)

Abs(x) == IF x < 0 THEN -x ELSE x

RECURSIVE Gcd(_, _)
Gcd(a, b) == IF b = 0 THEN a ELSE Gcd(b, a % b)

\* the rational n/d in lowest terms, d > 0
R(n, d) ==
    LET g == Gcd(Abs(n), Abs(d))
        s == IF d < 0 THEN -1 ELSE 1
    IN  [n |-> s * (n \div g), d |-> s * (d \div g)]

RInt(k) == [n |-> k, d |-> 1]

\* x * y, reducing crosswise before multiplying
RMul(x, y) ==
    LET g1 == Gcd(Abs(x.n), y.d)
        g2 == Gcd(Abs(y.n), x.d)
    IN  [n |-> (x.n \div g1) * (y.n \div g2), d |-> (x.d \div g2) * (y.d \div g1)]

\* x + y over the least common denominator
RAdd(x, y) ==
    LET g == Gcd(x.d, y.d)
    IN  R(x.n * (y.d \div g) + y.n * (x.d \div g), (x.d \div g) * y.d)

RNeg(x) == [n |-> -x.n, d |-> x.d]

RSub(x, y) == RAdd(x, RNeg(y))

RAbs(x) == [n |-> Abs(x.n), d |-> x.d]

\* x < y
RLess(x, y) == RSub(x, y).n < 0

\* x / y, y # 0
RDiv(x, y) ==
    RMul(x, IF y.n < 0 THEN [n |-> -y.d, d |-> -y.n] ELSE [n |-> y.d, d |-> y.n])

Zero == RInt(0)

-----------------------------------------------------------------------------
(* Text primitives of Python used by get_next_sample *)

None == <<>>

Digits == <<"0", "1", "2", "3", "4", "5", "6", "7", "8", "9">>

\* str.find: the 0-based index of the first c in s, -1 when there is none
Find(s, c) ==
    LET at == {i \in 1..Len(s) : s[i] = c}
    IN  IF at = {} THEN -1 ELSE (CHOOSE i \in at : \A j \in at : i <= j) - 1

\* s[from:], from a 0-based index
SliceFrom(s, from) == SubSeq(s, from + 1, Len(s))

\* s[from:to], 0-based, to excluded
Slice(s, from, to) == SubSeq(s, from + 1, to)

\* str.split(' '): the pieces between single spaces, empty pieces included
RECURSIVE Split(_)
Split(s) ==
    LET sp == Find(s, " ")
    IN  IF sp = -1 THEN <<s>>
        ELSE <<Slice(s, 0, sp)>> \o Split(SliceFrom(s, sp + 1))

IsDigit(c) == \E k \in 1..10 : Digits[k] = c

DigitVal(c) == (CHOOSE k \in 1..10 : Digits[k] = c) - 1

RECURSIVE DecVal(_)
DecVal(ds) ==
    IF ds = <<>> THEN 0
    ELSE 10 * DecVal(SubSeq(ds, 1, Len(ds) - 1)) + DigitVal(ds[Len(ds)])

\* the digits of a token with its sign removed
Unsigned(tok) == IF tok # <<>> /\ tok[1] = "-" THEN Tail(tok) ELSE tok

\* float(x) does not raise ValueError.  Over the alphabet of the model the
\* strings float() accepts are an optional "-" followed by decimal digits.
IsFloat(tok) ==
    /\ Unsigned(tok) # <<>>
    /\ \A i \in 1..Len(Unsigned(tok)) : IsDigit(Unsigned(tok)[i])

\* float(x)
Float(tok) ==
    IF tok[1] = "-" THEN RInt(-DecVal(Unsigned(tok))) ELSE RInt(DecVal(tok))

\* bytes.decode('utf-8', errors='ignore'): ASCII bytes (NUL among them) are
\* kept, the pair C3 A9 becomes one character, and a C3 or an A9 that is
\* not part of such a pair is dropped
Decode(raw) ==
    LET marked == [i \in 1..Len(raw) |->
                     IF raw[i] = "A9"
                     THEN IF i > 1 /\ raw[i - 1] = "C3" THEN "E9" ELSE "DROP"
                     ELSE IF raw[i] = "C3" THEN "DROP" ELSE raw[i]]
    IN  SelectSeq(marked, LAMBDA c : c # "DROP")

-----------------------------------------------------------------------------
(* SensorManager: unit conversion and packet parsing *)

\* MG_TO_MS2 = 9.80665 / 1000.0
MG_TO_MS2 == R(980665, 100000000)

\* MDPS_TO_DPS = 1.0 / 1000.0
MDPS_TO_DPS == R(1, 1000)

\* a plausible slip: the second slice written [3:9]
ConvertAll(packet_data) ==
    [i \in 1..Len(packet_data) |->
        IF i <= 3 THEN RMul(packet_data[i], MG_TO_MS2)
        ELSE RMul(packet_data[i], MDPS_TO_DPS)]

\* lines 103-104: packet_data[0:3] *= MG_TO_MS2 ; packet_data[3:6] *= MDPS_TO_DPS
Convert(packet_data) ==
    [i \in 1..Len(packet_data) |->
        IF i <= 3 THEN RMul(packet_data[i], MG_TO_MS2)
        ELSE IF i <= 6 THEN RMul(packet_data[i], MDPS_TO_DPS)
        ELSE packet_data[i]]

\* [float(x) for x in parts]
Floats(parts) == [i \in 1..Len(parts) |-> Float(parts[i])]

\* lines 89-100: packet_data for the packet packet_str; None stands both
\* for packet_data left at None and for the ValueError caught on line 107
ParsePacket(packet_str) ==
    LET parts == SelectSeq(Split(packet_str), LAMBDA p : p # <<>>)
        numeric == \A i \in 1..Len(parts) : IsFloat(parts[i])
    IN  IF Len(parts) = 6
        THEN IF numeric THEN Floats(parts) \o <<Zero, Zero, Zero>> ELSE None
        ELSE IF Len(parts) = 9
        THEN IF numeric THEN Floats(parts) ELSE None
        ELSE None

\* a plausible slip: the assignment of line 105 outside the if of line 101
LatestReset(last_valid_packet, packet_data) ==
    IF packet_data # None THEN Convert(packet_data) ELSE None

\* a plausible slip: the first packet of a batch is kept, not the last
LatestFirst(last_valid_packet, packet_data) ==
    IF last_valid_packet # None THEN last_valid_packet
    ELSE IF packet_data # None THEN Convert(packet_data)
    ELSE None

\* lines 101-105: last_valid_packet after the packet has been handled
Latest(last_valid_packet, packet_data) ==
    IF packet_data # None THEN Convert(packet_data) ELSE last_valid_packet

\* a plausible slip: the prefix is cut at the start marker
ResyncAtStart(buf, start_idx, end_idx) == SliceFrom(buf, start_idx + 1)

\* line 81: self.buffer = self.buffer[end_idx+1:]
Resync(buf, start_idx, end_idx) == SliceFrom(buf, end_idx + 1)

\* a plausible slip: the end marker is left in the buffer
ConsumeKeepEnd(buf, end_idx) == SliceFrom(buf, end_idx)

\* line 86: self.buffer = self.buffer[end_idx+1:]
Consume(buf, end_idx) == SliceFrom(buf, end_idx + 1)

\* the while loop of lines 75-110, from the buffer buf and the value
\* last_valid_packet has on entry to an iteration
RECURSIVE ProcessBuffer(_, _)
ProcessBuffer(buf, last_valid_packet) ==
    LET start_idx == Find(buf, "$")
        end_idx == Find(buf, ";")
    IN  IF start_idx # -1 /\ end_idx # -1 /\ start_idx > end_idx
        THEN ProcessBuffer(Resync(buf, start_idx, end_idx), last_valid_packet)
        ELSE IF start_idx # -1 /\ end_idx # -1
        THEN ProcessBuffer(Consume(buf, end_idx),
                           Latest(last_valid_packet,
                                  ParsePacket(Slice(buf, start_idx + 1, end_idx))))
        ELSE [buffer |-> buf, last_valid_packet |-> last_valid_packet]

\* a plausible slip: the guard of lines 112-113 left out
GuardOff(buf) == buf

\* lines 112-113
Guard(buf) == IF Len(buf) > BufferLimit THEN <<>> ELSE buf

-----------------------------------------------------------------------------
(* The device: what it can put on the serial line *)

RECURSIVE Chars(_)
\* the decimal digits of a natural number
Chars(k) == IF k < 10 THEN <<Digits[k + 1]>> ELSE Chars(k \div 10) \o <<Digits[(k % 10) + 1]>>

\* an integer as the firmware prints it
Token(k) == IF k < 0 THEN <<"-">> \o Chars(-k) ELSE Chars(k)

RECURSIVE Join(_)
\* tokens separated by single spaces
Join(nums) ==
    IF nums = <<>> THEN <<>>
    ELSE IF Len(nums) = 1 THEN Token(nums[1])
    ELSE Token(nums[1]) \o <<" ">> \o Join(Tail(nums))

\* a framed packet: '$' + tokens + ';'
Packet(nums) == <<"$">> \o Join(nums) \o <<";">>

\* the frames of the short streams: two valid packets (the second with a
\* negative value, a two-digit value and a doubled space), a packet of three
\* tokens, the tail of a packet whose head was lost, a packet cut before its
\* end marker, two packets of six tokens one of which is no number (a NUL
\* byte in it, a two-byte character in it), and line noise
Frames ==
    { Packet(<<1, 2, 3, 4, 5, 6>>),
      <<"$", "-", "7", " ", " ">> \o Join(<<18, 9, 6, 5, 4, 3, 2, 1>>) \o <<";">>,
      Packet(<<1, 2, 3>>),
      <<"5", " ", "6", ";">>,
      <<"$", "1", " ", "2">>,
      <<"$", "1", "NUL", " ">> \o Join(<<2, 3, 4, 5, 6>>) \o <<";">>,
      <<"$">> \o Join(<<6, 5, 4, 3, 2, 1>>) \o <<"C3", "A9", ";">>,
      <<"x">> }

RECURSIVE StreamsOf(_)
\* every concatenation of at most k frames
StreamsOf(k) ==
    IF k = 0 THEN {<<>>}
    ELSE LET shorter == StreamsOf(k - 1)
         IN  shorter \cup {s \o f : s \in shorter, f \in Frames}

\* line noise long enough to bring the buffer to the limit of line 112
Flood(len) == [i \in 1..len |-> "x"]

\* a packet behind a long run of noise, and a run of noise alone
FloodStreams ==
    { Flood(BufferLimit - 5) \o Packet(<<1, 2, 3, 4, 5, 6>>),
      Flood(BufferLimit + 1) }

Streams == StreamsOf(MaxFrames) \cup FloodStreams

\* the values in_waiting takes while the bytes w are still to come.  Of a
\* backlog of at most MaxBacklog bytes: a few bytes, everything up to the
\* end of a packet, or all of it.  Of a longer backlog: all of it but a few
\* bytes, everything up to the end of a packet, or one byte more than the
\* buffer limit
ReadSizes(w) ==
    {n \in 1..Len(w) :
        IF Len(w) <= MaxBacklog
        THEN n <= MaxRead \/ w[n] = ";" \/ n = Len(w)
        ELSE n >= Len(w) - MaxRead \/ w[n] = ";" \/ n = BufferLimit + 1}

\* the raw readings (mg, mdps, Gauss) the simulation draws; np.random.normal
\* can return any real, these are the draws the model takes
SimRaw ==
    { <<RInt(0), RInt(0), RInt(1000), RInt(0), RInt(0), RInt(0),
        R(1, 2), RInt(0), R(-1, 2)>>,
      <<RInt(0), RInt(0), RInt(1000), RInt(0), RInt(0), RInt(90000),
        R(1, 2), RInt(0), R(-1, 2)>>,
      <<RInt(600), RInt(0), RInt(800), RInt(0), RInt(0), RInt(-90000),
        R(1, 2), RInt(0), R(-1, 2)>>,
      <<RInt(6000), RInt(0), RInt(0), RInt(0), RInt(0), RInt(0),
        R(1, 2), RInt(0), R(-1, 2)>>,
      <<RInt(0), RInt(0), RInt(7000), RInt(0), RInt(0), RInt(0),
        R(1, 2), RInt(0), R(-1, 2)>> }

-----------------------------------------------------------------------------
(* SensorManager.get_next_sample: the outcomes of one call, path by path.  *)
(* An outcome gives the value of every variable of the sensor manager      *)
(* after the call.                                                         *)

Same ==
    [op |-> op, sim_t |-> sim_t, buffer |-> buffer, wire |-> wire, ret |-> None,
     raised |-> FALSE, processed |-> <<>>, raw_data |-> <<>>, fed |-> fed,
     heard |-> heard, cleared |-> cleared]

\* lines 35-62: simulation mode
SimOutcomes ==
    IF simulation_mode /\ sim_t < MaxSimTicks
    THEN {[Same EXCEPT !.op = "sim", !.sim_t = sim_t + 1, !.ret = Convert(raw)] :
             raw \in SimRaw}
    ELSE {}

\* lines 65, 120-121: nothing is waiting on the port
IdleOutcomes ==
    IF ~simulation_mode THEN {[Same EXCEPT !.op = "idle"]} ELSE {}

\* line 65: self.ser.in_waiting raises, outside the try block
InWaitingErrorOutcomes ==
    IF ~simulation_mode
    THEN {[Same EXCEPT !.op = "in_waiting_error", !.raised = TRUE]}
    ELSE {}

\* line 68: in_waiting or read raises inside the try block; lines 117-119
ReadErrorOutcomes ==
    IF ~simulation_mode THEN {[Same EXCEPT !.op = "read_error"]} ELSE {}

\* a plausible slip: self.buffer = text_data
ExtendReplace(buf, text_data) == text_data

\* line 70: self.buffer += text_data
Extend(buf, text_data) == buf \o text_data

\* lines 68-115: n bytes are read and the buffer is processed
ReadOutcome(n) ==
    LET bytes == SubSeq(wire, 1, n)
        text_data == Decode(bytes)
        appended == Extend(buffer, text_data)
        done == ProcessBuffer(appended, None)
    IN  [op |-> "read", sim_t |-> sim_t,
         buffer |-> Guard(done.buffer),
         wire |-> SubSeq(wire, n + 1, Len(wire)),
         ret |-> done.last_valid_packet,
         raised |-> FALSE,
         processed |-> appended,
         raw_data |-> bytes,
         fed |-> fed \o bytes,
         heard |-> heard \o text_data,
         cleared |-> cleared \/ Len(done.buffer) > BufferLimit]

ReadOutcomes ==
    IF ~simulation_mode THEN {ReadOutcome(n) : n \in ReadSizes(wire)} ELSE {}

\* the caller sees the outcome o
Return(o) ==
    /\ op' = o.op
    /\ sim_t' = o.sim_t
    /\ buffer' = o.buffer
    /\ wire' = o.wire
    /\ ret' = o.ret
    /\ raised' = o.raised
    /\ processed' = o.processed
    /\ raw_data' = o.raw_data
    /\ fed' = o.fed
    /\ heard' = o.heard
    /\ cleared' = o.cleared
    /\ best' = IF o.ret # None THEN o.ret ELSE best
    /\ UNCHANGED simulation_mode
    /\ UNCHANGED loopVars

GetNextSampleSim == (\E o \in SimOutcomes : Return(o)) /\ UNCHANGED dashVars

GetNextSampleIdle == (\E o \in IdleOutcomes : Return(o)) /\ UNCHANGED dashVars

GetNextSampleInWaitingError ==
    (\E o \in InWaitingErrorOutcomes : Return(o)) /\ UNCHANGED dashVars

GetNextSampleReadError ==
    (\E o \in ReadErrorOutcomes : Return(o)) /\ UNCHANGED dashVars

GetNextSampleRead == (\E o \in ReadOutcomes : Return(o)) /\ UNCHANGED dashVars

-----------------------------------------------------------------------------
(* Dashboard.update: orientation and position from one sample *)

\* ACCELERATION_DEADZONE = 50
ACCELERATION_DEADZONE == 50

\* G = 9.81
G == R(981, 100)

\* ENABLE_POSITION_DAMPING = False
ENABLE_POSITION_DAMPING == FALSE

\* damping_factor = 0.95
damping_factor == R(19, 20)

\* the natural number whose square is k
ISqrt(k) == CHOOSE r \in 0..k : r * r = k

\* math.sqrt(a*a + b*b), for a and b whose root is rational: with
\* a = g*m and b = g*n, m/n in lowest terms, it is |g| * sqrt(m*m + n*n)
SqrtSumSq(a, b) ==
    IF b.n = 0 THEN RAbs(a)
    ELSE LET q == RDiv(a, b)
             g == RDiv(b, RInt(q.d))
         IN  RMul(RAbs(g), RInt(ISqrt(q.n * q.n + q.d * q.d)))

\* An angle in radians is held as its cosine and its sine.
\* math.atan2(y, x), (x, y) # (0, 0)
Atan2(y, x) ==
    LET h == SqrtSumSq(x, y)
    IN  [c |-> RDiv(x, h), s |-> RDiv(y, h)]

\* the angle 0
Angle0 == [c |-> RInt(1), s |-> Zero]

\* math.radians(yaw) as an angle, for a yaw that is a whole number of
\* quarter turns (the yaw rates and the ticks of the model give no other)
Radians(yaw) ==
    LET quarter == CHOOSE q \in 0..3 : yaw.d = 1 /\ (yaw.n - 90 * q) % 360 = 0
    IN  [c |-> RInt(<<1, 0, -1, 0>>[quarter + 1]),
         s |-> RInt(<<0, 1, 0, -1>>[quarter + 1])]

\* a plausible slip: the yaw kept within one turn
YawStepWrapped(yaw, gz, dt) ==
    LET sum == RAdd(yaw, RMul(gz, dt))
    IN  R(sum.n % (360 * sum.d), sum.d)

\* line 168: self.current_yaw += gz * dt
YawStep(yaw, gz, dt) == RAdd(yaw, RMul(gz, dt))

\* lines 176-196: the accelerometer vector in the world frame, gravity
\* taken off its Z component
WorldLinear(ax, ay, az, yaw_rad, pitch_rad, roll_rad) ==
    LET c_y == yaw_rad.c
        s_y == yaw_rad.s
        c_p == pitch_rad.c
        s_p == pitch_rad.s
        c_r == roll_rad.c
        s_r == roll_rad.s
        ax_w == RAdd(RAdd(RMul(RMul(c_y, c_p), ax),
                          RMul(RSub(RMul(RMul(c_y, s_p), s_r), RMul(s_y, c_r)), ay)),
                     RMul(RAdd(RMul(RMul(c_y, s_p), c_r), RMul(s_y, s_r)), az))
        ay_w == RAdd(RAdd(RMul(RMul(s_y, c_p), ax),
                          RMul(RAdd(RMul(RMul(s_y, s_p), s_r), RMul(c_y, c_r)), ay)),
                     RMul(RSub(RMul(RMul(s_y, s_p), c_r), RMul(c_y, s_r)), az))
        az_w == RAdd(RAdd(RMul(RNeg(s_p), ax),
                          RMul(RMul(c_p, s_r), ay)),
                     RMul(RMul(c_p, c_r), az))
    IN  <<ax_w, ay_w, RSub(az_w, G)>>

\* a plausible slip: the dead zone disabled
DeadzoneOff(a) == a

\* lines 199-201: if abs(a) < ACCELERATION_DEADZONE: a = 0
Deadzone(a) ==
    IF RLess(RAbs(a), RInt(ACCELERATION_DEADZONE)) THEN Zero ELSE a

\* lines 204-213: self.v += a * dt, then the damping when it is enabled
Velocity(v, a, dt) ==
    LET v1 == RAdd(v, RMul(a, dt))
    IN  IF ENABLE_POSITION_DAMPING THEN RMul(v1, damping_factor) ELSE v1

\* lines 216-218: self.p += self.v * dt
Position(p, v, dt) == RAdd(p, RMul(v, dt))

\* the time, in milliseconds, between two timer ticks reaching update
TickSteps == {1000, 2000}

\* the packets of the streams the dashboard is run on: the board at rest,
\* turning about Z, tilted and turning back, pushed along X, lifted
DashPackets ==
    { Packet(<<0, 0, 1000, 0, 0, 0>>),
      Packet(<<0, 0, 1000, 0, 0, 90000, 0, 0, 0>>),
      Packet(<<600, 0, 800, 0, 0, -90000>>),
      Packet(<<6000, 0, 0, 0, 0, 0>>),
      Packet(<<0, 0, 7000, 0, 0, 0>>) }

DashStreams == {p \o q : p \in DashPackets, q \in DashPackets \cup {<<>>}}

\* what one update call did: the values of its locals that the properties
\* of the estimators are stated on
NoStep ==
    [kind |-> "init", new_data |-> None, dt |-> Zero, gap |-> 0, since |-> 0,
     yaw0 |-> Zero, vel0 |-> <<Zero, Zero, Zero>>, pos0 |-> <<Zero, Zero, Zero>>,
     acc_w |-> <<Zero, Zero, Zero>>]

\* lines 149-218, for the sample new_data taken at the time current_time
Estimate(new_data, current_time) ==
    LET ax == new_data[1]
        ay == new_data[2]
        az == new_data[3]
        gz == new_data[6]
        dt == R(current_time - last_update_time, 1000)
        acc_magnitude_yz == SqrtSumSq(ay, az)
        pitch_rad == IF acc_magnitude_yz # Zero THEN Atan2(RNeg(ax), acc_magnitude_yz)
                     ELSE Angle0
        roll_rad == IF az # Zero THEN Atan2(ay, az) ELSE Angle0
        yaw == YawStep(current_yaw, gz, dt)
        acc_w == WorldLinear(ax, ay, az, Radians(yaw), pitch_rad, roll_rad)
        v == [i \in 1..3 |-> Velocity(vel[i], Deadzone(acc_w[i]), dt)]
    IN  [dt |-> dt, yaw |-> yaw, acc_w |-> acc_w, vel |-> v,
         pos |-> [i \in 1..3 |-> Position(pos[i], v[i], dt)]]

\* every outcome get_next_sample can have in the current state
Outcomes ==
    SimOutcomes \cup IdleOutcomes \cup InWaitingErrorOutcomes
        \cup ReadErrorOutcomes \cup ReadOutcomes

\* Dashboard.update, called by the timer d milliseconds after the previous
\* call, get_next_sample having the outcome o
UpdateWith(d, o) ==
    LET current_time == now + d
        e == Estimate(o.ret, current_time)
        called == [NoStep EXCEPT !.gap = current_time - last_call_time,
                                 !.since = current_time - last_sample_time,
                                 !.yaw0 = current_yaw, !.vel0 = vel, !.pos0 = pos]
    IN  /\ Return(o)
        /\ now' = current_time
        /\ last_call_time' = current_time
        /\ IF o.raised
           THEN \* the exception of line 65 leaves update at line 131
                /\ step' = [called EXCEPT !.kind = "raised"]
                /\ UNCHANGED <<last_update_time, last_sample_time, current_yaw, vel, pos>>
           ELSE IF o.ret = None
           THEN \* lines 133-134
                /\ step' = [called EXCEPT !.kind = "no_data"]
                /\ UNCHANGED <<last_update_time, last_sample_time, current_yaw, vel, pos>>
           ELSE /\ step' = [called EXCEPT !.kind = "sample", !.new_data = o.ret,
                                           !.dt = e.dt, !.acc_w = e.acc_w]
                /\ last_update_time' = current_time
                /\ last_sample_time' = current_time
                /\ current_yaw' = e.yaw
                /\ vel' = e.vel
                /\ pos' = e.pos

Update ==
    \E d \in TickSteps :
        /\ now + d <= MaxClock * 1000
        /\ \E o \in Outcomes : UpdateWith(d, o)

\* SensorManager.__init__ followed by Dashboard.__init__: the mode is the
\* one asked for, or simulation when the port could not be opened
Init ==
    /\ simulation_mode \in BOOLEAN
    /\ sim_t = 0
    /\ buffer = <<>>
    /\ wire \in (IF simulation_mode THEN {<<>>} ELSE Streams)
    /\ op = "init"
    /\ ret = None
    /\ raised = FALSE
    /\ processed = <<>>
    /\ raw_data = <<>>
    /\ fed = <<>>
    /\ heard = <<>>
    /\ best = None
    /\ cleared = FALSE
    /\ now = 0
    /\ last_update_time = 0
    /\ last_call_time = 0
    /\ last_sample_time = 0
    /\ current_yaw = Zero
    /\ vel = <<Zero, Zero, Zero>>
    /\ pos = <<Zero, Zero, Zero>>
    /\ step = NoStep
    /\ pc = "idle"
    /\ loop_packet = None
    /\ entry = <<>>

Next ==
    \/ GetNextSampleSim
    \/ GetNextSampleIdle
    \/ GetNextSampleInWaitingError
    \/ GetNextSampleReadError
    \/ GetNextSampleRead

Spec == Init /\ [][Next]_vars

\* the dashboard on a port that delivers packets the estimators are exact on
DashInit ==
    /\ simulation_mode \in BOOLEAN
    /\ sim_t = 0
    /\ buffer = <<>>
    /\ wire \in (IF simulation_mode THEN {<<>>} ELSE DashStreams)
    /\ op = "init"
    /\ ret = None
    /\ raised = FALSE
    /\ processed = <<>>
    /\ raw_data = <<>>
    /\ fed = <<>>
    /\ heard = <<>>
    /\ best = None
    /\ cleared = FALSE
    /\ now = 0
    /\ last_update_time = 0
    /\ last_call_time = 0
    /\ last_sample_time = 0
    /\ current_yaw = Zero
    /\ vel = <<Zero, Zero, Zero>>
    /\ pos = <<Zero, Zero, Zero>>
    /\ step = NoStep
    /\ pc = "idle"
    /\ loop_packet = None
    /\ entry = <<>>

DashNext == Update

DashSpec == DashInit /\ [][DashNext]_vars

-----------------------------------------------------------------------------
(* SensorManager.get_next_sample in live mode, one loop iteration at a     *)
(* time: the call reads, then runs the while loop of lines 75-110 step by  *)
(* step, then leaves through lines 112-115.                                *)

\* lines 65-73: bytes are waiting; they are read and appended to the buffer
LoopEnter ==
    /\ pc = "idle"
    /\ ~simulation_mode
    /\ \E n \in ReadSizes(wire) :
          LET bytes == SubSeq(wire, 1, n)
              text_data == Decode(bytes)
          IN  /\ buffer' = Extend(buffer, text_data)
              /\ wire' = SubSeq(wire, n + 1, Len(wire))
              /\ processed' = Extend(buffer, text_data)
              /\ raw_data' = bytes
              /\ fed' = fed \o bytes
              /\ heard' = heard \o text_data
    /\ loop_packet' = None
    /\ entry' = <<>>
    /\ pc' = "loop"
    /\ UNCHANGED <<simulation_mode, sim_t, op, ret, raised, best, cleared>>
    /\ UNCHANGED dashVars

\* lines 77-82: an end marker stands before the first start marker
LoopResync ==
    /\ pc = "loop"
    /\ LET start_idx == Find(buffer, "$")
           end_idx == Find(buffer, ";")
       IN  /\ start_idx # -1 /\ end_idx # -1 /\ start_idx > end_idx
           /\ buffer' = Resync(buffer, start_idx, end_idx)
    /\ entry' = Append(entry, buffer)
    /\ UNCHANGED <<simulation_mode, sim_t, wire, op, ret, raised, processed,
                   raw_data, fed, heard, best, cleared, pc, loop_packet>>
    /\ UNCHANGED dashVars

\* lines 77-78, 84-108: a packet is cut from the buffer and handled
LoopPacket ==
    /\ pc = "loop"
    /\ LET start_idx == Find(buffer, "$")
           end_idx == Find(buffer, ";")
       IN  /\ start_idx # -1 /\ end_idx # -1 /\ ~(start_idx > end_idx)
           /\ buffer' = Consume(buffer, end_idx)
           /\ loop_packet' =
                  Latest(loop_packet,
                         ParsePacket(Slice(buffer, start_idx + 1, end_idx)))
    /\ entry' = Append(entry, buffer)
    /\ UNCHANGED <<simulation_mode, sim_t, wire, op, ret, raised, processed,
                   raw_data, fed, heard, best, cleared, pc>>
    /\ UNCHANGED dashVars

\* lines 77-78, 109-115: no delimiter pair is left; the call returns
LoopBreak ==
    /\ pc = "loop"
    /\ LET start_idx == Find(buffer, "$")
           end_idx == Find(buffer, ";")
       IN  ~(start_idx # -1 /\ end_idx # -1)
    /\ buffer' = Guard(buffer)
    /\ cleared' = (cleared \/ Len(buffer) > BufferLimit)
    /\ op' = "read"
    /\ ret' = loop_packet
    /\ raised' = FALSE
    /\ best' = IF loop_packet # None THEN loop_packet ELSE best
    /\ pc' = "idle"
    /\ UNCHANGED <<simulation_mode, sim_t, wire, processed, raw_data, fed,
                   heard, loop_packet, entry>>
    /\ UNCHANGED dashVars

\* a live sensor manager right after construction
LoopInit == Init /\ ~simulation_mode

LoopNext ==
    \/ LoopEnter
    \/ LoopResync
    \/ LoopPacket
    \/ LoopBreak

LoopSpec == LoopInit /\ [][LoopNext]_vars

-----------------------------------------------------------------------------
(* The framing rule stated on the text as a whole, without the loop: the   *)
(* end markers cut the text into segments, and a segment that holds a      *)
(* start marker carries one packet, from its first start marker on.        *)

Positions(s, c) == {i \in 1..Len(s) : s[i] = c}

Max(S) == CHOOSE x \in S : \A y \in S : y <= x

Min(S) == CHOOSE x \in S : \A y \in S : x <= y

IsSuffix(a, b) == Len(a) <= Len(b) /\ a = SubSeq(b, Len(b) - Len(a) + 1, Len(b))

\* the tokens of a payload: its maximal runs of characters other than space
TokensOf(p) ==
    LET starts == {i \in 1..Len(p) : p[i] # " " /\ (i = 1 \/ p[i - 1] = " ")}
        stop(i) == Min({j \in i..Len(p) : j = Len(p) \/ p[j + 1] = " "})
        nth(k) == CHOOSE i \in starts : Cardinality({j \in starts : j < i}) = k - 1
    IN  [k \in 1..Cardinality(starts) |-> SubSeq(p, nth(k), stop(nth(k)))]

\* a payload of exactly 6 or exactly 9 numeric tokens
IsValidPayload(p) ==
    LET t == TokensOf(p)
    IN  /\ Len(t) \in {6, 9}
        /\ \A k \in 1..Len(t) : IsFloat(t[k])

\* the sample a valid payload stands for
ExpectedSample(p) ==
    LET t == TokensOf(p)
    IN  [i \in 1..9 |->
            IF i <= 3 THEN RMul(Float(t[i]), R(980665, 100000000))
            ELSE IF i <= 6 THEN RMul(Float(t[i]), R(1, 1000))
            ELSE IF Len(t) = 6 THEN Zero
            ELSE Float(t[i])]

\* the end markers of the segments of text that hold a start marker
FramedEnds(text) ==
    LET ends == Positions(text, ";")
        starts == Positions(text, "$")
    IN  {e \in ends :
            \E i \in starts : i < e /\ \A x \in ends : ~(i < x /\ x < e)}

\* the payload of the packet that ends at the end marker e
PayloadAt(text, e) ==
    LET before == {x \in 1..(e - 1) : text[x] = ";"}
        from == IF before = {} THEN 0 ELSE Max(before)
        first == Min({i \in (from + 1)..(e - 1) : text[i] = "$"})
    IN  SubSeq(text, first + 1, e - 1)

\* what a call that processes text has to return: the sample of the last
\* valid packet of text, None when text holds none
ExpectedReturn(text) ==
    LET valid == {e \in FramedEnds(text) : IsValidPayload(PayloadAt(text, e))}
    IN  IF valid = {} THEN None ELSE ExpectedSample(PayloadAt(text, Max(valid)))

\* no start marker of b is followed by an end marker
NoCompletePacket(b) ==
    \A i \in Positions(b, "$") : \A j \in Positions(b, ";") : j < i

\* text ends with '$' + payload + ';', the payload free of markers and valid
EndsWithFrame(text) ==
    LET starts == Positions(text, "$")
        last == Max(starts)
    IN  /\ text # <<>>
        /\ text[Len(text)] = ";"
        /\ starts # {}
        /\ \A x \in last..(Len(text) - 1) : text[x] # ";"
        /\ IsValidPayload(SubSeq(text, last + 1, Len(text) - 1))

FinalPayload(text) == SubSeq(text, Max(Positions(text, "$")) + 1, Len(text) - 1)

\* a start marker with no end marker after it stands before the final frame
PendingStart(text) ==
    \E i \in Positions(text, "$") :
        /\ i < Max(Positions(text, "$"))
        /\ \A x \in Positions(text, ";") : x < i \/ x = Len(text)

-----------------------------------------------------------------------------
(* C1 *)

\* C1 as stated: a call that completes a framed packet of 6 or 9 numeric
\* tokens, and no later one, returns the 9-element sample of that packet
\* (accelerometer times 9.80665/1000, gyroscope times 1/1000, magnetometer
\* zero for 6 tokens and unchanged for 9)
C1Original ==
    (op = "read" /\ EndsWithFrame(processed))
        => (Len(ret) = 9 /\ ret = ExpectedSample(FinalPayload(processed)))

\* C1 amended: the same, for a packet whose start marker is the first start
\* marker in the buffer after the previous end marker
C1Theorem ==
    (op = "read" /\ EndsWithFrame(processed) /\ ~PendingStart(processed))
        => (Len(ret) = 9 /\ ret = ExpectedSample(FinalPayload(processed)))

\* a 9-token packet completed over several reads, magnetometer not zero
C1Witness ==
    /\ op = "read"
    /\ EndsWithFrame(processed)
    /\ ~PendingStart(processed)
    /\ Len(TokensOf(FinalPayload(processed))) = 9
    /\ Len(raw_data) < Len(processed)
    /\ ret # None
    /\ ret[1] = R(-7 * 980665, 100000000)
    /\ ret[9] = RInt(1)

-----------------------------------------------------------------------------
(* C2 *)

\* text up to its last end marker
Complete(text) ==
    IF Positions(text, ";") = {} THEN <<>>
    ELSE SubSeq(text, 1, Max(Positions(text, ";")))

\* the complete part of text ends with two valid frames back to back
TwoFramesAtEnd(text) ==
    LET whole == Complete(text)
        second == Max(Positions(whole, "$"))
    IN  /\ EndsWithFrame(whole)
        /\ second > 1
        /\ EndsWithFrame(SubSeq(whole, 1, second - 1))

\* C2: when the buffer a call processes holds two valid packets back to
\* back, the call returns the sample of the later one, and no complete
\* packet is left in the buffer
C2Theorem ==
    (op = "read" /\ TwoFramesAtEnd(processed))
        => /\ ret = ExpectedSample(FinalPayload(Complete(processed)))
           /\ NoCompletePacket(buffer)
           /\ IsSuffix(buffer, SubSeq(processed, Len(Complete(processed)) + 1,
                                      Len(processed)))

\* two different valid packets handled by one call
C2Witness ==
    /\ op = "read"
    /\ TwoFramesAtEnd(processed)
    /\ ret # None
    /\ LET whole == Complete(processed)
           first == SubSeq(whole, 1, Max(Positions(whole, "$")) - 1)
       IN  ret # ExpectedSample(FinalPayload(first))

-----------------------------------------------------------------------------
(* C3 *)

\* what one call on the whole stream returns
OneShot(bytes) == ProcessBuffer(Decode(bytes), None).last_valid_packet

\* C3 as stated: however the stream was cut into reads, the last sample
\* returned so far is the one a single call on the whole stream returns,
\* and a call returns None before a full packet has accumulated
C3Original ==
    ~simulation_mode
        => /\ best = OneShot(fed)
           /\ (ret # None => ~NoCompletePacket(processed))

\* C3 amended: the same, as long as no read ended inside a multi-byte
\* character and line 113 has not cleared the buffer
C3Theorem ==
    (~simulation_mode /\ ~cleared /\ heard = Decode(fed))
        => /\ best = OneShot(fed)
           /\ (ret # None => ~NoCompletePacket(processed))

\* a packet that arrived over several reads, its last byte alone
C3Witness ==
    /\ ~simulation_mode
    /\ ~cleared
    /\ heard = Decode(fed)
    /\ op = "read"
    /\ Len(raw_data) = 1
    /\ Len(processed) > MaxRead
    /\ ret # None
    /\ best = ret

-----------------------------------------------------------------------------
(* C4 *)

\* the first end marker of text stands before every start marker
OrphanEnd(text) ==
    /\ Positions(text, ";") # {}
    /\ \A i \in Positions(text, "$") : Min(Positions(text, ";")) < i

AfterOrphan(text) == SubSeq(text, Min(Positions(text, ";")) + 1, Len(text))

\* C4 as stated: the call that sees an end marker before any start marker
\* returns no sample for it and leaves neither it nor the text before it
\* in the buffer
C4Original ==
    (op = "read" /\ OrphanEnd(processed))
        => /\ ret = ExpectedReturn(AfterOrphan(processed))
           /\ IsSuffix(buffer, AfterOrphan(processed))

\* C4 amended: no sample is returned for it; it and the text before it are
\* cut from the buffer by the call that sees it when the buffer holds a
\* start marker, and stay in the buffer (up to the guard of line 112) when
\* the buffer holds none
C4Theorem ==
    (op = "read" /\ OrphanEnd(processed))
        => /\ ret = ExpectedReturn(AfterOrphan(processed))
           /\ IF Positions(processed, "$") # {}
              THEN IsSuffix(buffer, AfterOrphan(processed))
              ELSE /\ ret = None
                   /\ buffer = IF Len(processed) > BufferLimit THEN <<>>
                               ELSE processed

\* an orphan end marker followed by a valid packet, in one call
C4Witness ==
    /\ op = "read"
    /\ OrphanEnd(processed)
    /\ Positions(processed, "$") # {}
    /\ ret # None
    /\ buffer = <<>>

-----------------------------------------------------------------------------
(* C5 *)

\* C5: the buffer never holds more than 1000 characters after a call, and
\* a call that processes more than 1000 characters without a delimiter
\* leaves it empty and returns None
C5Theorem ==
    /\ Len(buffer) <= 1000
    /\ (op = "read" /\ Len(processed) > 1000
          /\ Positions(processed, "$") = {} /\ Positions(processed, ";") = {})
         => (buffer = <<>> /\ ret = None)

\* more than 1000 characters of noise, fed a few bytes at a time
C5Witness ==
    /\ op = "read"
    /\ Len(processed) > 1000
    /\ Len(raw_data) <= MaxRead
    /\ Positions(processed, "$") = {}
    /\ Positions(processed, ";") = {}
    /\ buffer = <<>>
    /\ cleared

-----------------------------------------------------------------------------
(* C6 *)

\* C6: a call raises nothing on a malformed packet, returns the sample of
\* the last valid packet of the buffer it processed (None when there is
\* none), and leaves no complete packet in the buffer
C6Theorem ==
    op = "read"
        => /\ ~raised
           /\ ret = ExpectedReturn(processed)
           /\ NoCompletePacket(buffer)
           /\ IsSuffix(buffer, processed)

\* a valid packet followed by a malformed one, in one call
C6Witness ==
    /\ op = "read"
    /\ ret # None
    /\ FramedEnds(processed) # {}
    /\ ~IsValidPayload(PayloadAt(processed, Max(FramedEnds(processed))))
    /\ buffer = <<>>

-----------------------------------------------------------------------------
(* C7 *)

\* C7: a failure of the port, while in_waiting is asked or while the bytes
\* are read, ends the call with None and no exception
C7Claim ==
    op \in {"in_waiting_error", "read_error"} => (ret = None /\ ~raised)

-----------------------------------------------------------------------------
(* C8 *)

StripNul(text) == SelectSeq(text, LAMBDA c : c # "NUL")

\* C8: the buffer never holds a NUL character, and a call returns what it
\* would return with the NUL characters taken out of the text
C8Claim ==
    /\ Positions(buffer, "NUL") = {}
    /\ op = "read" => ret = ExpectedReturn(StripNul(processed))

-----------------------------------------------------------------------------
(* C9 *)

\* the yaw rate gz of the sample the last update call processed
StepGz == step.new_data[6]

\* C9 as stated: a processed sample adds gz*dt to the yaw, dt being the
\* time since the previous update call, and nothing else changes the yaw
C9Original ==
    /\ step.kind = "sample"
         => current_yaw = RAdd(step.yaw0, RMul(StepGz, R(step.gap, 1000)))
    /\ step.kind # "sample" => current_yaw = step.yaw0

\* C9 amended: a processed sample adds gz*dt to the yaw, dt being the time
\* since the previous update call that processed a sample (since
\* construction for the first one), and nothing else changes the yaw
C9Theorem ==
    /\ step.kind = "sample"
         => current_yaw = RAdd(step.yaw0, RMul(StepGz, R(step.since, 1000)))
    /\ step.kind # "sample" => current_yaw = step.yaw0

\* a turning sample processed after a call that had no data, the yaw
\* already off zero
C9Witness ==
    /\ step.kind = "sample"
    /\ StepGz # Zero
    /\ step.since > step.gap
    /\ step.yaw0 # Zero
    /\ current_yaw # step.yaw0

-----------------------------------------------------------------------------
(* C10 *)

\* every axis of the world-frame linear acceleration of the last update
\* call is below the dead zone in magnitude
AllInDeadzone == \A i \in 1..3 : RLess(RAbs(step.acc_w[i]), RInt(50))

\* C10: a step in which every world-frame axis is below the dead zone
\* leaves the velocity as it was and moves the position by v*dt
C10Theorem ==
    (step.kind = "sample" /\ AllInDeadzone)
        => /\ vel = step.vel0
           /\ \A i \in 1..3 :
                 pos[i] = RAdd(step.pos0[i], RMul(step.vel0[i], step.dt))

\* a moving board, a sample with a small acceleration that is not zero
C10Witness ==
    /\ step.kind = "sample"
    /\ AllInDeadzone
    /\ \E i \in 1..3 : step.acc_w[i] # Zero
    /\ \E i \in 1..3 : step.vel0[i] # Zero
    /\ pos # step.pos0

-----------------------------------------------------------------------------
(* C11 *)

NumEnds(text) == Cardinality(Positions(text, ";"))

\* the step by step call ends as the call taken in one piece does
LoopAgrees ==
    (pc = "idle" /\ op = "read")
        => LET done == ProcessBuffer(processed, None)
           IN  ret = done.last_valid_packet /\ buffer = Guard(done.buffer)

\* the buffers the loop of the current call has gone through so far
Chain == entry \o (IF pc = "loop" THEN <<buffer>> ELSE <<>>)

\* every iteration that went on to another one left the buffer shorter and
\* with fewer end markers, so a call runs at most as many of them as the
\* buffer held end markers when the loop began; and a call on a buffer
\* without a complete packet has returned None
C11Progress ==
    /\ \A k \in 1..(Len(Chain) - 1) :
          /\ Len(Chain[k + 1]) < Len(Chain[k])
          /\ NumEnds(Chain[k + 1]) < NumEnds(Chain[k])
    /\ Len(entry) <= NumEnds(processed)
    /\ (pc = "idle" /\ op = "read" /\ NoCompletePacket(processed))
          => ret = None

\* C11: every call terminates: each iteration of the loop of lines 75-110
\* either exits or strictly shortens the buffer, removing at least one end
\* marker, so the number of iterations is bounded by the end markers in the
\* buffer; the loop takes no byte from the port; and the call returns None
\* when the buffer holds no complete packet
C11Theorem ==
    /\ []C11Progress
    /\ [][pc = "loop" => wire' = wire]_vars

\* a call that resynchronized, found no complete packet and returned None
\* while the device still had bytes to send
C11Witness ==
    /\ pc = "idle"
    /\ op = "read"
    /\ Len(entry) = 1
    /\ NumEnds(entry[1]) >= 1
    /\ Positions(buffer, "$") # {}
    /\ NoCompletePacket(processed)
    /\ ret = None
    /\ wire # <<>>

====
